---- MODULE Spec2Model ----
(***************************************************************************)
(* Activity tracker of script.js: the closure state of the DOMContentLoaded *)
(* listener (lines 13-22), the geolocation watch, the repeating timer and   *)
(* the three button handlers.  Time is Date.now() in milliseconds, counted   *)
(* from an epoch shortly before the page was loaded.                          *)
(***************************************************************************)
EXTENDS Integers, Sequences, FiniteSets, TLC

\* ---------------------------------------------------------------- bounds
\* Number of clock advances a behaviour may contain.
MaxAdvances == 4
\* Longest path (number of coordinates) a session may collect.
MaxPoints == 3

\* ------------------------------------------------------------- constants
\* JavaScript null (the initial watchId, startTime, timerInterval, polyline).
Null == -1
\* Date.now() when the page is loaded: positive, as every real epoch time is.
LoadTime == 1000
\* The clock advances in steps of 5 s (5000 ms) between events.
ClockStep == 5000
\* Radius of the Earth in km.
R == 6371

\* The last instant the clock can show.
LastInstant == LoadTime + MaxAdvances * ClockStep

\* The coordinates [latitude, longitude] (degrees, line 44) the position
\* source may report.  Latitude 180 and longitude 270 are outside the valid
\* ranges [-90, 90] and [-180, 180].
Positions == { <<0, 0>>, <<0, 90>>, <<180, 0>>, <<0, 270>> }

\* Text shown by an element that displays '-' (lines 247-249).
Dash == <<>>

VARIABLES
    now,                  \* Date.now()
    hasGeolocation,       \* navigator.geolocation is available
    liveWatches,          \* watch ids registered with the geolocation API
    liveTimers,           \* interval ids registered with setInterval
    callbackQueued,       \* a position callback is queued for delivery
    polyline,             \* line 14: TRUE when a polyline is on the map
    watchId,              \* line 15
    startTime,            \* line 16
    timerInterval,        \* line 17
    pausedTime,           \* line 18
    totalPausedDuration,  \* line 19
    distance,             \* line 20
    coordinates,          \* line 21
    isPaused,             \* line 22
    durationElement,      \* text of #duration: Dash or <<hours, minutes, seconds>>
    distanceElement,      \* text of #distance: Dash or the number shown
    startBtnDisabled,     \* startBtn.disabled
    pauseBtnDisabled,     \* pauseBtn.disabled
    resetBtnDisabled,     \* resetBtn.disabled
    pauseBtnText,         \* pauseBtn.textContent
    alertMsg,             \* the alert raised by the last step, or "none"
    last                  \* the last step taken: "load", "advance", "start", ...

vars == << now, hasGeolocation, liveWatches, liveTimers, callbackQueued,
           polyline, watchId, startTime, timerInterval, pausedTime,
           totalPausedDuration, distance, coordinates, isPaused,
           durationElement, distanceElement, startBtnDisabled,
           pauseBtnDisabled, resetBtnDisabled, pauseBtnText, alertMsg, last >>

\* The whole state as one record, so that a handler is a function from the
\* state before it to the state after it and calls compose in program order.
Cur ==
    [ now |-> now, hasGeolocation |-> hasGeolocation,
      liveWatches |-> liveWatches, liveTimers |-> liveTimers,
      callbackQueued |-> callbackQueued,
      polyline |-> polyline, watchId |-> watchId, startTime |-> startTime,
      timerInterval |-> timerInterval, pausedTime |-> pausedTime,
      totalPausedDuration |-> totalPausedDuration, distance |-> distance,
      coordinates |-> coordinates, isPaused |-> isPaused,
      durationElement |-> durationElement,
      distanceElement |-> distanceElement,
      startBtnDisabled |-> startBtnDisabled,
      pauseBtnDisabled |-> pauseBtnDisabled,
      resetBtnDisabled |-> resetBtnDisabled, pauseBtnText |-> pauseBtnText,
      alertMsg |-> alertMsg, last |-> last ]

Commit(s) ==
    /\ now' = s.now
    /\ hasGeolocation' = s.hasGeolocation
    /\ liveWatches' = s.liveWatches
    /\ liveTimers' = s.liveTimers
    /\ callbackQueued' = s.callbackQueued
    /\ polyline' = s.polyline
    /\ watchId' = s.watchId
    /\ startTime' = s.startTime
    /\ timerInterval' = s.timerInterval
    /\ pausedTime' = s.pausedTime
    /\ totalPausedDuration' = s.totalPausedDuration
    /\ distance' = s.distance
    /\ coordinates' = s.coordinates
    /\ isPaused' = s.isPaused
    /\ durationElement' = s.durationElement
    /\ distanceElement' = s.distanceElement
    /\ startBtnDisabled' = s.startBtnDisabled
    /\ pauseBtnDisabled' = s.pauseBtnDisabled
    /\ resetBtnDisabled' = s.resetBtnDisabled
    /\ pauseBtnText' = s.pauseBtnText
    /\ alertMsg' = s.alertMsg
    /\ last' = s.last

\* JavaScript truthiness of a number-or-null value: null and 0 are falsy.
Truthy(x) == x # Null /\ x # 0

\* A handle the host has not given out to a live registration: the smallest
\* positive integer not in use (watchPosition and setInterval return ids > 0).
FreshId(live) == CHOOSE n \in 1..(Cardinality(live) + 1) : n \notin live

\* ------------------------------------------------- distance calculation
\* cos of an angle given in degrees.  The model's coordinates are multiples
\* of 90 degrees, where the cosine is exactly 1, 0 or -1.
CosDeg(d) ==
    CASE d % 360 = 0   -> 1
      [] d % 360 = 90  -> 0
      [] d % 360 = 180 -> -1
      [] d % 360 = 270 -> 0

\* 2 * sin(d/2) * sin(d/2) for d in degrees, by the half-angle identity
\* sin^2(x) = (1 - cos(2x)) / 2 (lines 120 and 122, doubled to stay integral).
TwoSinSqHalf(d) == 1 - CosDeg(d)

\* 2 * atan2(sqrt(a), sqrt(1 - a)) of line 123, in units of 1e-5 radian, for
\* the values a = 0, 1/2, 1 that arise (given as a2 = 2a): 0, pi/2, pi.
CentralAngle(a2) ==
    CASE a2 = 0 -> 0
      [] a2 = 1 -> 157080
      [] a2 = 2 -> 314159

\* calculateDistance (lines 115-125): haversine distance in whole kilometres.
calculateDistance(lat1, lon1, lat2, lon2) ==
    LET dLat == lat2 - lat1
        dLon == lon2 - lon1
        a2 == TwoSinSqHalf(dLat)
                + CosDeg(lat1) * CosDeg(lat2) * TwoSinSqHalf(dLon)
        c == CentralAngle(a2)
    IN  (R * c) \div 100000

\* ----------------------------------------------------- timer and duration
\* Math.floor((ms / unit) % 60) of lines 144-145: JavaScript's % keeps the
\* sign of the dividend, and Math.floor then rounds towards minus infinity.
FloorMod60(ms, unit) ==
    IF ms >= 0
    THEN (ms \div unit) % 60
    ELSE -((((-ms) % (60 * unit)) + unit - 1) \div unit)

\* The text of lines 147-148 for an elapsed time, as <<hours, minutes, seconds>>.
FormatDuration(elapsedMilliseconds) ==
    << elapsedMilliseconds \div (1000 * 60 * 60),
       FloorMod60(elapsedMilliseconds, 1000 * 60),
       FloorMod60(elapsedMilliseconds, 1000) >>

\* The interval callback counting one more second on each tick instead of
\* computing the duration from the clock.
timerCallback_countsTicks(s) ==
    IF Truthy(s.startTime) /\ ~s.isPaused
    THEN LET shown == IF s.durationElement = Dash
                      THEN 0
                      ELSE s.durationElement[1] * (1000 * 60 * 60)
                             + s.durationElement[2] * (1000 * 60)
                             + s.durationElement[3] * 1000
         IN  [s EXCEPT !.durationElement = FormatDuration(shown + 1000)]
    ELSE s

\* The interval callback without the test of isPaused.
timerCallback_ignoresPause(s) ==
    IF Truthy(s.startTime)
    THEN LET elapsedMilliseconds ==
                 s.now - s.startTime - s.totalPausedDuration
         IN  [s EXCEPT !.durationElement = FormatDuration(elapsedMilliseconds)]
    ELSE s

\* The interval callback of lines 140-150.
timerCallback(s) ==
    IF Truthy(s.startTime) /\ ~s.isPaused
    THEN LET elapsedMilliseconds ==
                 s.now - s.startTime - s.totalPausedDuration
         IN  [s EXCEPT !.durationElement = FormatDuration(elapsedMilliseconds)]
    ELSE s

\* startTimer without the clearInterval of line 132.
startTimer_noClear(s) ==
    LET s2 == IF s.isPaused /\ s.pausedTime > 0
              THEN [s EXCEPT
                      !.totalPausedDuration = @ + (s.now - s.pausedTime),
                      !.pausedTime = 0]
              ELSE s
        id == FreshId(s2.liveTimers)
    IN  [s2 EXCEPT !.timerInterval = id, !.liveTimers = @ \cup {id}]

\* startTimer (lines 131-151).
startTimer(s) ==
    LET s1 == IF Truthy(s.timerInterval)
              THEN [s EXCEPT !.liveTimers = @ \ {s.timerInterval}]
              ELSE s
        s2 == IF s1.isPaused /\ s1.pausedTime > 0
              THEN [s1 EXCEPT
                      !.totalPausedDuration = @ + (s1.now - s1.pausedTime),
                      !.pausedTime = 0]
              ELSE s1
        id == FreshId(s2.liveTimers)
    IN  [s2 EXCEPT !.timerInterval = id, !.liveTimers = @ \cup {id}]

\* stopTimer (lines 156-159).
stopTimer(s) ==
    [s EXCEPT !.liveTimers = @ \ {s.timerInterval}, !.timerInterval = Null]

\* ------------------------------------------------ geolocation and tracking
\* onPositionUpdate putting the new point at the front of the path.
onPositionUpdate_prepends(s, newCoord) ==
    LET s1 == [s EXCEPT !.coordinates = <<newCoord>> \o @,
                        !.polyline = TRUE]
        n == Len(s1.coordinates)
    IN  IF n > 1
        THEN LET prevCoord == s1.coordinates[n - 1]
                 d == s1.distance
                        + calculateDistance(prevCoord[1], prevCoord[2],
                                            newCoord[1], newCoord[2])
             IN  [s1 EXCEPT !.distance = d, !.distanceElement = d]
        ELSE s1

\* onPositionUpdate measuring each new point from the first point of the
\* path instead of the previous one.
onPositionUpdate_fromFirst(s, newCoord) ==
    LET s1 == [s EXCEPT !.coordinates = Append(@, newCoord),
                        !.polyline = TRUE]
        n == Len(s1.coordinates)
    IN  IF n > 1
        THEN LET prevCoord == s1.coordinates[1]
                 d == s1.distance
                        + calculateDistance(prevCoord[1], prevCoord[2],
                                            newCoord[1], newCoord[2])
             IN  [s1 EXCEPT !.distance = d, !.distanceElement = d]
        ELSE s1

\* onPositionUpdate (lines 42-70) for a position with coords [latitude, longitude].
onPositionUpdate(s, newCoord) ==
    LET s1 == [s EXCEPT !.coordinates = Append(@, newCoord),
                        !.polyline = TRUE]
        n == Len(s1.coordinates)
    IN  IF n > 1
        THEN LET prevCoord == s1.coordinates[n - 1]
                 d == s1.distance
                        + calculateDistance(prevCoord[1], prevCoord[2],
                                            newCoord[1], newCoord[2])
             IN  [s1 EXCEPT !.distance = d, !.distanceElement = d]
        ELSE s1

\* onPositionError (lines 76-79).
onPositionError(s) == [s EXCEPT !.alertMsg = "location error"]

\* startTracking (lines 84-94).
startTracking(s) ==
    IF s.hasGeolocation
    THEN LET id == FreshId(s.liveWatches)
         IN  [s EXCEPT !.watchId = id, !.liveWatches = @ \cup {id}]
    ELSE [s EXCEPT !.alertMsg = "not supported"]

\* stopTracking (lines 99-104).
stopTracking(s) ==
    IF s.watchId # Null
    THEN [s EXCEPT !.liveWatches = @ \ {s.watchId}, !.watchId = Null]
    ELSE s

\* ------------------------------------------------ control button handlers
\* handleStart forgetting to disable the Start button.
handleStart_leavesStartEnabled(s) ==
    IF s.watchId # Null
    THEN [s EXCEPT !.alertMsg = "already started"]
    ELSE LET s1 == [s EXCEPT !.startTime = s.now,
                             !.totalPausedDuration = 0,
                             !.pausedTime = 0,
                             !.isPaused = FALSE,
                             !.durationElement = <<0, 0, 0>>,
                             !.distanceElement = 0,
                             !.coordinates = <<>>,
                             !.distance = 0,
                             !.polyline = FALSE]
             s2 == startTracking(s1)
             s3 == startTimer(s2)
         IN  [s3 EXCEPT !.pauseBtnDisabled = FALSE,
                        !.pauseBtnText = "Pause",
                        !.resetBtnDisabled = FALSE]

\* handleStart without its test of watchId.
handleStart_unguarded(s) ==
    LET s1 == [s EXCEPT !.startTime = s.now,
                        !.totalPausedDuration = 0,
                        !.pausedTime = 0,
                        !.isPaused = FALSE,
                        !.durationElement = <<0, 0, 0>>,
                        !.distanceElement = 0,
                        !.coordinates = <<>>,
                        !.distance = 0,
                        !.polyline = FALSE]
        s2 == startTracking(s1)
        s3 == startTimer(s2)
    IN  [s3 EXCEPT !.startBtnDisabled = TRUE,
                   !.pauseBtnDisabled = FALSE,
                   !.pauseBtnText = "Pause",
                   !.resetBtnDisabled = FALSE]

\* handleStart taking the start time before it tests whether a session is
\* already running.
handleStart_setsTimeFirst(s) ==
    IF s.watchId # Null
    THEN [s EXCEPT !.alertMsg = "already started", !.startTime = s.now]
    ELSE LET s1 == [s EXCEPT !.startTime = s.now,
                             !.totalPausedDuration = 0,
                             !.pausedTime = 0,
                             !.isPaused = FALSE,
                             !.durationElement = <<0, 0, 0>>,
                             !.distanceElement = 0,
                             !.coordinates = <<>>,
                             !.distance = 0,
                             !.polyline = FALSE]
             s2 == startTracking(s1)
             s3 == startTimer(s2)
         IN  [s3 EXCEPT !.startBtnDisabled = TRUE,
                        !.pauseBtnDisabled = FALSE,
                        !.pauseBtnText = "Pause",
                        !.resetBtnDisabled = FALSE]

\* handleStart forgetting to empty the path and the distance.
handleStart_keepsPath(s) ==
    IF s.watchId # Null
    THEN [s EXCEPT !.alertMsg = "already started"]
    ELSE LET s1 == [s EXCEPT !.startTime = s.now,
                             !.totalPausedDuration = 0,
                             !.pausedTime = 0,
                             !.isPaused = FALSE,
                             !.durationElement = <<0, 0, 0>>,
                             !.distanceElement = 0,
                             !.polyline = FALSE]
             s2 == startTracking(s1)
             s3 == startTimer(s2)
         IN  [s3 EXCEPT !.startBtnDisabled = TRUE,
                        !.pauseBtnDisabled = FALSE,
                        !.pauseBtnText = "Pause",
                        !.resetBtnDisabled = FALSE]

\* handleStart (lines 165-198).
handleStart(s) ==
    IF s.watchId # Null
    THEN [s EXCEPT !.alertMsg = "already started"]
    ELSE LET s1 == [s EXCEPT !.startTime = s.now,
                             !.totalPausedDuration = 0,
                             !.pausedTime = 0,
                             !.isPaused = FALSE,
                             !.durationElement = <<0, 0, 0>>,
                             !.distanceElement = 0,
                             !.coordinates = <<>>,
                             !.distance = 0,
                             !.polyline = FALSE]
             s2 == startTracking(s1)
             s3 == startTimer(s2)
         IN  [s3 EXCEPT !.startBtnDisabled = TRUE,
                        !.pauseBtnDisabled = FALSE,
                        !.pauseBtnText = "Pause",
                        !.resetBtnDisabled = FALSE]

\* handlePause leaving the geolocation watch registered while paused.
handlePause_keepsWatch(s) ==
    LET s1 == [s EXCEPT !.isPaused = ~s.isPaused]
    IN  IF s1.isPaused
        THEN [s1 EXCEPT !.pausedTime = s.now,
                        !.pauseBtnText = "Resume"]
        ELSE [startTimer(startTracking(s1)) EXCEPT !.pauseBtnText = "Pause"]

\* handlePause with the accumulation of the paused time in the wrong branch:
\* it runs when the session is paused, not when it is resumed.
handlePause_addsInPauseBranch(s) ==
    LET s1 == [s EXCEPT !.isPaused = ~s.isPaused]
    IN  IF s1.isPaused
        THEN [stopTracking(s1) EXCEPT
                !.totalPausedDuration =
                    IF s.pausedTime > 0 THEN @ + (s.now - s.pausedTime) ELSE @,
                !.pausedTime = s.now,
                !.pauseBtnText = "Resume"]
        ELSE [startTimer(startTracking(s1)) EXCEPT !.pauseBtnText = "Pause"]

\* handlePause (lines 203-217).
handlePause(s) ==
    LET s1 == [s EXCEPT !.isPaused = ~s.isPaused]
    IN  IF s1.isPaused
        THEN [stopTracking(s1) EXCEPT !.pausedTime = s.now,
                                      !.pauseBtnText = "Resume"]
        ELSE [startTimer(startTracking(s1)) EXCEPT !.pauseBtnText = "Pause"]

\* handleReset forgetting to clear the path and the distance.
handleReset_keepsPath(s) ==
    LET s1 == stopTimer(stopTracking(s))
    IN  [s1 EXCEPT !.startTime = Null,
                   !.pausedTime = 0,
                   !.totalPausedDuration = 0,
                   !.isPaused = FALSE,
                   !.polyline = FALSE,
                   !.durationElement = Dash,
                   !.distanceElement = Dash,
                   !.startBtnDisabled = FALSE,
                   !.pauseBtnDisabled = TRUE,
                   !.pauseBtnText = "Pause",
                   !.resetBtnDisabled = TRUE]

\* handleReset (lines 222-256).
handleReset(s) ==
    LET s1 == stopTimer(stopTracking(s))
    IN  [s1 EXCEPT !.startTime = Null,
                   !.pausedTime = 0,
                   !.totalPausedDuration = 0,
                   !.distance = 0,
                   !.coordinates = <<>>,
                   !.isPaused = FALSE,
                   !.polyline = FALSE,
                   !.durationElement = Dash,
                   !.distanceElement = Dash,
                   !.startBtnDisabled = FALSE,
                   !.pauseBtnDisabled = TRUE,
                   !.pauseBtnText = "Pause",
                   !.resetBtnDisabled = TRUE]

\* -------------------------------------------------------------- behaviour
\* The state once initialize() has run (lines 13-22 and 262-275).  The page
\* shows '-' for the duration and the distance until a session starts.
Init ==
    /\ now = LoadTime
    /\ hasGeolocation \in BOOLEAN
    /\ liveWatches = {}
    /\ liveTimers = {}
    /\ callbackQueued = FALSE
    /\ polyline = FALSE
    /\ watchId = Null
    /\ startTime = Null
    /\ timerInterval = Null
    /\ pausedTime = 0
    /\ totalPausedDuration = 0
    /\ distance = 0
    /\ coordinates = <<>>
    /\ isPaused = FALSE
    /\ durationElement = Dash
    /\ distanceElement = Dash
    /\ startBtnDisabled = FALSE
    /\ pauseBtnDisabled = TRUE
    /\ resetBtnDisabled = TRUE
    /\ pauseBtnText = "Pause"
    /\ alertMsg = "none"
    /\ last = "load"

\* An event begins with no alert on screen.
Begin(event) == [Cur EXCEPT !.alertMsg = "none", !.last = event]

\* Time passes between two events.
Advance ==
    /\ now < LastInstant
    /\ now' = now + ClockStep
    /\ alertMsg' = "none"
    /\ last' = "advance"
    /\ UNCHANGED << hasGeolocation, liveWatches, liveTimers, callbackQueued,
                    polyline, watchId, startTime, timerInterval, pausedTime,
                    totalPausedDuration, distance, coordinates, isPaused,
                    durationElement, distanceElement, startBtnDisabled,
                    pauseBtnDisabled, resetBtnDisabled, pauseBtnText >>

\* The three handlers, invoked in any state.
Start == Commit(handleStart(Begin("start")))

Pause == Commit(handlePause(Begin("pause")))

Reset == Commit(handleReset(Begin("reset")))

\* A registered watch acquires a position and queues its success callback.
PositionAcquired ==
    /\ liveWatches # {}
    /\ ~callbackQueued
    /\ callbackQueued' = TRUE
    /\ alertMsg' = "none"
    /\ last' = "acquired"
    /\ UNCHANGED << now, hasGeolocation, liveWatches, liveTimers,
                    polyline, watchId, startTime, timerInterval, pausedTime,
                    totalPausedDuration, distance, coordinates, isPaused,
                    durationElement, distanceElement, startBtnDisabled,
                    pauseBtnDisabled, resetBtnDisabled, pauseBtnText >>

\* The queued success callback runs; clearWatch does not withdraw a callback
\* that is already queued.
PositionUpdate ==
    /\ callbackQueued
    /\ Len(coordinates) < MaxPoints
    /\ \E position \in Positions :
          Commit(onPositionUpdate(
                   [Begin("position") EXCEPT !.callbackQueued = FALSE],
                   position))

\* A registered watch reports an error.
PositionError ==
    /\ liveWatches # {}
    /\ Commit(onPositionError(Begin("error")))

\* A live interval fires.
TimerTick ==
    /\ liveTimers # {}
    /\ Commit(timerCallback(Begin("tick")))

\* A click reaches a handler only through a button that is enabled.
StartClick == ~startBtnDisabled /\ Start

PauseClick == ~pauseBtnDisabled /\ Pause

ResetClick == ~resetBtnDisabled /\ Reset

Next ==
    \/ Advance
    \/ Start
    \/ Pause
    \/ Reset
    \/ PositionAcquired
    \/ PositionUpdate
    \/ PositionError
    \/ TimerTick

\* The handlers called in any order.
Spec == Init /\ [][Next]_vars

NextUI ==
    \/ Advance
    \/ StartClick
    \/ PauseClick
    \/ ResetClick
    \/ PositionAcquired
    \/ PositionUpdate
    \/ PositionError
    \/ TimerTick

\* The page as a user drives it: clicks reach enabled buttons only.
SpecUI == Init /\ [][NextUI]_vars

\* ------------------------------------------------------- session states
\* The session states of the specification, read off the closure variables:
\* a session exists once startTime is set, and isPaused tells whether it is
\* paused.
Idle == startTime = Null

Tracking == startTime # Null /\ ~isPaused

Paused == startTime # Null /\ isPaused

\* Sum of the distances between consecutive elements of a path.
RECURSIVE PathLength(_)
PathLength(path) ==
    IF Len(path) < 2
    THEN 0
    ELSE LET n == Len(path)
         IN  PathLength(SubSeq(path, 1, n - 1))
               + calculateDistance(path[n - 1][1], path[n - 1][2],
                                   path[n][1], path[n][2])

\* A coordinate within the valid ranges of latitude and longitude.
ValidCoordinate(c) == c[1] \in -90..90 /\ c[2] \in -180..180

\* The fields of the session.
session == << startTime, pausedTime, totalPausedDuration, isPaused,
              coordinates, distance >>

\* ------------------------------------------------------------ properties
\* C1: the elapsed duration computed while Tracking is now - startedAt - (the
\* completed pauses): every resume of a paused session adds (now - pausedAt)
\* to totalPausedDuration, and a timer tick while Tracking shows
\* now - startTime - totalPausedDuration.
C1_ElapsedExcludesPauses ==
    [][ /\ (Paused /\ last' = "pause")
             => totalPausedDuration'
                  = totalPausedDuration + (now - pausedTime)
        /\ (Tracking /\ last' = "tick")
             => durationElement'
                  = FormatDuration(now' - startTime' - totalPausedDuration')
      ]_vars

\* C2: distance is the sum of the distances between consecutive elements of
\* coordinates, and 0 when there are fewer than 2 of them.
C2_DistanceIsPathLength ==
    /\ distance = PathLength(coordinates)
    /\ Len(coordinates) < 2 => distance = 0

\* A path of three points that goes out and comes back: two legs, both of
\* them longer than 0, between a start and an end that coincide.
C2_Witness ==
    /\ Len(coordinates) = 3
    /\ coordinates[3] = coordinates[1]
    /\ calculateDistance(coordinates[1][1], coordinates[1][2],
                         coordinates[2][1], coordinates[2][2]) > 0
    /\ distance = 2 * calculateDistance(coordinates[1][1], coordinates[1][2],
                                        coordinates[2][1], coordinates[2][2])
    /\ Tracking

\* C3: while the session stays Paused, the duration on display does not
\* change, whatever happens (timer ticks, the clock advancing, positions).
C3_PausedDurationConstant ==
    [][ (Paused /\ Paused') => durationElement' = durationElement ]_vars

\* A timer tick has run in a paused session, later than the pause began and
\* with a duration on display that is not the one a tick would compute now.
C3_Witness ==
    /\ Paused
    /\ last = "tick"
    /\ now > pausedTime
    /\ durationElement
         # FormatDuration(now - startTime - totalPausedDuration)

\* C4: a position delivered while the session is not Tracking changes
\* neither coordinates nor distance.
C4_UpdateOutsideTrackingIgnored ==
    [][ (last' = "position" /\ ~Tracking)
          => (coordinates' = coordinates /\ distance' = distance) ]_vars

\* C5: right after a reset the session is Idle with distance 0, no
\* coordinates, no paused duration, no start time and no pause in progress;
\* and an Idle session shows no duration (none is produced until a start).
C5_ResetClears ==
    /\ [](last = "reset"
            => /\ Idle
               /\ distance = 0
               /\ coordinates = <<>>
               /\ totalPausedDuration = 0
               /\ pausedTime = 0
               /\ ~isPaused
               /\ durationElement = Dash)
    /\ [][ (Idle /\ Idle') => durationElement' = durationElement ]_vars

\* A reset has just ended a session whose watch had a callback in flight.
C5_Witness ==
    /\ last = "reset"
    /\ callbackQueued
    /\ now > LoadTime

\* C6: a start issued while the session is not Idle raises the
\* already-started alert and changes no field of the session.
C6_StartRejectedWhenActive ==
    [][ (last' = "start" /\ ~Idle)
          => (alertMsg' = "already started" /\ UNCHANGED session) ]_vars

\* C7: handlePause is the one handler of both commands: a pause when
\* isPaused is false, a resume when it is true.  On an Idle session the
\* pause finds no session Tracking and the resume none Paused, so either is
\* signalled and changes no field of the session.
C7_InvalidPauseRejected ==
    [][ (last' = "pause" /\ Idle)
          => (alertMsg' # "none" /\ UNCHANGED session) ]_vars

\* C8: a position outside the valid ranges is never appended to coordinates.
C8_InvalidCoordinateRejected ==
    [][ \A c \in Positions :
          ~ValidCoordinate(c)
            => ~(last' = "position" /\ coordinates' = Append(coordinates, c))
      ]_vars

\* C9: the pause timestamp is set if and only if the session is Paused.
C9_PausedTimeIffPaused == (pausedTime # 0) <=> Paused

\* C10: while Paused, the duration on display is the one as of the instant
\* the pause began: pausedAt - startedAt - totalPausedDuration.
C10_FrozenAtPauseInstant ==
    Paused => durationElement
                = FormatDuration(pausedTime - startTime - totalPausedDuration)

\* C11: a start on an Idle session sets startTime to the current instant,
\* distance and totalPausedDuration to 0, empties coordinates, clears the
\* pause bookkeeping and enters Tracking, whatever the state held before.
C11_StartInitialises ==
    [][ (Idle /\ last' = "start")
          => /\ startTime' = now
             /\ distance' = 0
             /\ totalPausedDuration' = 0
             /\ coordinates' = <<>>
             /\ pausedTime' = 0
             /\ ~isPaused'
             /\ Tracking' ]_vars

\* A session has just been started, later than the page was loaded, while a
\* position callback of the previous session is still queued.
C11_Witness ==
    /\ last = "start"
    /\ Tracking
    /\ startTime = now
    /\ now > LoadTime
    /\ callbackQueued
    /\ coordinates = <<>>

\* C12: once a session has its start time, no position update, pause,
\* resume, timer tick, position error, passing of time or rejected start
\* changes startTime; only a reset (or a start that is accepted) does.
C12_StartTimeKept ==
    [][ ( /\ ~Idle
          /\ \/ last' \in {"position", "acquired", "pause", "tick", "error",
                           "advance"}
             \/ (last' = "start" /\ alertMsg' = "already started") )
          => startTime' = startTime ]_vars

\* A start has just been rejected in a session that began earlier.
C12_Witness ==
    /\ last = "start"
    /\ alertMsg = "already started"
    /\ Tracking
    /\ startTime < now

\* One sequence is the beginning of another.
IsPrefix(p, q) == Len(p) <= Len(q) /\ SubSeq(q, 1, Len(p)) = p

\* C13: every event other than start and reset keeps the coordinates
\* collected so far as a prefix of the new sequence, which is that sequence
\* or that sequence with one position appended, and decreases neither
\* distance nor totalPausedDuration.
C13_AppendOnly ==
    [][ last' \notin {"start", "reset"}
          => /\ IsPrefix(coordinates, coordinates')
             /\ Len(coordinates') <= Len(coordinates) + 1
             /\ distance' >= distance
             /\ totalPausedDuration' >= totalPausedDuration ]_vars

\* A position has just been appended to a path of two others, at a distance
\* from the one before it.
C13_Witness ==
    /\ last = "position"
    /\ Len(coordinates) = 3
    /\ coordinates[3] # coordinates[2]
    /\ coordinates[2] # coordinates[1]
    /\ distance > PathLength(SubSeq(coordinates, 1, 2))

\* C14: within a session totalPausedDuration is changed by the resume of a
\* paused session alone, which never decreases it: every other event that is
\* neither a start nor a reset leaves it as it is.
C14_PausedDurationOnlyOnResume ==
    [][ /\ (last' \notin {"start", "reset"} /\ ~(Paused /\ last' = "pause"))
             => totalPausedDuration' = totalPausedDuration
        /\ (Paused /\ last' = "pause")
             => (Tracking' /\ totalPausedDuration' >= totalPausedDuration)
      ]_vars

\* A paused session has just been resumed, later than it was paused.
C14_Witness ==
    /\ last = "pause"
    /\ Tracking
    /\ pausedTime > 0
    /\ now > pausedTime

\* C15: a timer tick changes no field of the session and no watch, and what
\* it shows while Tracking is a function of now, startTime and
\* totalPausedDuration alone.
C15_TickSideEffectFree ==
    [][ last' = "tick"
          => /\ UNCHANGED << startTime, totalPausedDuration, pausedTime,
                             isPaused, distance, coordinates, watchId,
                             liveWatches, now >>
             /\ Tracking
                  => durationElement'
                       = FormatDuration(now - startTime - totalPausedDuration)
      ]_vars

\* A tick has just run in a Tracking session that has a path and is at
\* least two clock steps old, and the page shows that age.
C15_Witness ==
    /\ last = "tick"
    /\ Tracking
    /\ now >= startTime + 2 * ClockStep
    /\ Len(coordinates) > 0
    /\ durationElement = FormatDuration(now - startTime)

\* C16: a geolocation watch is registered only while the session is
\* Tracking: whenever watchId is set, or any watch is live, a session has
\* been started and is not paused; after a pause and after a reset no watch
\* is left.
C16_WatchOnlyWhileTracking ==
    /\ (watchId # Null \/ liveWatches # {}) => Tracking
    /\ (last = "reset" \/ (last = "pause" /\ isPaused))
         => (watchId = Null /\ liveWatches = {})

\* A session that was paused has been resumed and has its watch again.
C16_Witness ==
    /\ last = "pause"
    /\ Tracking
    /\ watchId # Null
    /\ liveWatches = {watchId}
    /\ now > pausedTime

\* C17: whatever the order of the handler calls, at most one geolocation
\* watch is registered, and it is the one watchId names: startTracking never
\* overwrites the id of a watch that is still registered.
C17_AtMostOneWatch ==
    /\ Cardinality(liveWatches) <= 1
    /\ liveWatches = {watchId} \ {Null}

\* A start has just been rejected while the watch of the running session is
\* registered, in a session that was paused and resumed before.
C17_Witness ==
    /\ last = "start"
    /\ alertMsg = "already started"
    /\ liveWatches = {watchId}
    /\ pausedTime > 0
    /\ Tracking

\* C18: whatever the order of the handler calls, at most one repeating timer
\* is live, and it is the one timerInterval names; after a reset none is.
C18_AtMostOneTimer ==
    /\ Cardinality(liveTimers) <= 1
    /\ liveTimers = {timerInterval} \ {Null}
    /\ last = "reset" => (liveTimers = {} /\ timerInterval = Null)

\* A paused session has just been resumed: startTimer has run a second time
\* in it, and one timer is live.
C18_Witness ==
    /\ last = "pause"
    /\ Tracking
    /\ pausedTime > 0
    /\ Cardinality(liveTimers) = 1
    /\ liveTimers = {timerInterval}

\* C19: when clicks reach enabled buttons only, the Start button is enabled
\* exactly when the session is Idle and the Pause/Resume and Reset buttons
\* exactly when it is not; so handleStart only ever runs on an Idle session
\* and handlePause only on a session that has been started.
C19_ButtonsFollowState ==
    /\ [](/\ ~startBtnDisabled <=> Idle
          /\ ~pauseBtnDisabled <=> ~Idle
          /\ ~resetBtnDisabled <=> ~Idle)
    /\ [][ /\ last' = "start" => Idle
           /\ last' = "pause" => ~Idle ]_vars

\* A reset has just ended a session, later than the page was loaded: the
\* page is Idle with Start enabled and the other two buttons disabled, and
\* a callback of the ended session is still queued.
C19_Witness ==
    /\ last = "reset"
    /\ Idle
    /\ ~startBtnDisabled
    /\ pauseBtnDisabled
    /\ resetBtnDisabled
    /\ callbackQueued
    /\ now > LoadTime

====
